---- MODULE Spec2Model ----
(***************************************************************************)
(* Libvirt::Secret (ext/libvirt/secret.c): the Ruby methods of a secret    *)
(* handle, the native virSecretPtr each handle wraps, and the secret store *)
(* of the libvirt daemon the methods forward to.                           *)
(*                                                                         *)
(* A Ruby Secret object is a Data object whose DATA_PTR is a virSecretPtr. *)
(* Every method takes the pointer out with secret_get, hands it to one     *)
(* libvirt call and turns the call's failure sentinel into an exception.   *)
(* The libvirt calls and the macros of common.h are not part of secret.c;  *)
(* they are modelled by what the libvirt API documents and by what the     *)
(* specification says of them.                                             *)
(***************************************************************************)
EXTENDS Integers, Sequences, FiniteSets, TLC

(* ------------------------------ bounds -------------------------------- *)

\* Longest secret value, in bytes.
MaxLen == 2

\* Number of Ruby Secret objects that are ever created.
NumHandles == 2

Bytes == {0, 1}

ByteSeqs == UNION {[1..n -> Bytes] : n \in 0..MaxLen}

Handles == 1..NumHandles

\* A virSecretPtr is the C null pointer or a reference to the secret: the
\* model follows one secret (one UUID) of the daemon and the Ruby objects
\* that refer to it.
NULL == "NULL"

SECRET == "secret"

(* ------------------------------- state -------------------------------- *)

VARIABLES
    store,      \* daemon: the secret, [defined, hasValue, value]
    handle,     \* Ruby Secret object -> [state, ptr]  (ptr is DATA_PTR)
    released,   \* Ruby Secret object -> number of virSecretFree calls on its pointer
    last,       \* the last method call: its inputs, what it dispatched, its outcome
    lastSet,    \* history: the Ruby string of the last successful set_value
    undefd      \* history: an undefine succeeded and no define followed

vars == <<store, handle, released, last, lastSet, undefd>>

\* What a Ruby caller can pass as the value argument of set_value.
\*   absent : no argument at all         nil : nil
\*   int    : an object without to_str   str : a String
\*   obj    : a non-String object whose to_str gives a String
Payloads ==
    {[kind |-> k, bytes |-> <<>>] : k \in {"absent", "nil", "int"}}
        \cup {[kind |-> k, bytes |-> b] : k \in {"str", "obj"}, b \in ByteSeqs}

\* What a Ruby caller can pass as the optional flags argument: nothing or
\* an Integer ("uint"; what the daemon makes of the bits is part of `fault`),
\* or an object that is no Integer ("bad").
FlagArgs == {"uint", "bad"}

NoValue == [set |-> FALSE, bytes |-> <<>>]

NoReply == [made |-> FALSE, null |-> TRUE, val |-> <<>>, size |-> 0]

NoRet == [tag |-> "none", bytes |-> <<>>, of |-> NULL]

NilRet == [tag |-> "nil", bytes |-> <<>>, of |-> NULL]

\* The record of one method call.
\* op, h: the method and the object it was called on; arg: the kind of the
\* value argument; flags: the flags argument; fault, oom: what the daemon and
\* the Ruby allocator did; called: the libvirt function that was invoked, or
\* "none"; kind: "ok" or the exception raised; ret: the value returned;
\* reply: what virSecretGetValue returned; frees: the free(val) calls made.
Call(op, h, arg, flags, fault, oom, called, kind, ret, reply, frees) ==
    [op |-> op, h |-> h, arg |-> arg,
     flags |-> flags,
     fault |-> fault, oom |-> oom, called |-> called, kind |-> kind, ret |-> ret,
     reply |-> reply, frees |-> frees]

Init ==
    /\ store = [defined |-> FALSE, hasValue |-> FALSE, value |-> <<>>]
    /\ handle = [h \in Handles |-> [state |-> "unborn", ptr |-> NULL]]
    /\ released = [h \in Handles |-> 0]
    /\ last = Call("init", 0, "absent", "uint", FALSE, FALSE, "none", "ok",
                   NoRet, NoReply, 0)
    /\ lastSet = NoValue
    /\ undefd = FALSE

(* ------------------- libvirt: the calls secret.c makes ---------------- *)
(* A virSecretPtr identifies the secret by UUID and carries its own copy   *)
(* of the UUID, the usage type and the usage id; the value and the XML     *)
(* live in the daemon and are fetched by a request.  `fault` is the        *)
(* daemon refusing or failing the request (policy, storage, transport);    *)
(* a refused request changes nothing.                                      *)

\* The request can be served: a live pointer, a daemon that answers, and a
\* secret that is still defined.
Served(ptr, fault) == ptr # NULL /\ ~fault /\ store.defined

\* int virSecretGetUUIDString(virSecretPtr, char *buf): formats the pointer's
\* own UUID; -1 only for an invalid pointer.
virSecretGetUUIDString(ptr) ==
    IF ptr = NULL THEN [r |-> -1, of |-> NULL] ELSE [r |-> 0, of |-> ptr]

\* int virSecretGetUsageType(virSecretPtr): the pointer's own usage type.
virSecretGetUsageType(ptr) ==
    IF ptr = NULL THEN [r |-> -1, of |-> NULL] ELSE [r |-> 0, of |-> ptr]

\* const char *virSecretGetUsageID(virSecretPtr): the pointer's own usage id.
virSecretGetUsageID(ptr) ==
    IF ptr = NULL THEN [null |-> TRUE, of |-> NULL] ELSE [null |-> FALSE, of |-> ptr]

\* char *virSecretGetXMLDesc(virSecretPtr, flags): asks the daemon.
virSecretGetXMLDesc(ptr, flags, fault) ==
    IF Served(ptr, fault) THEN [null |-> FALSE, of |-> ptr] ELSE [null |-> TRUE, of |-> NULL]

\* int virSecretSetValue(virSecretPtr, value, value_size, flags): the daemon
\* stores the first value_size bytes of value.
virSecretSetValue(ptr, value, value_size, flags, fault) ==
    IF Served(ptr, fault)
    THEN [r |-> 0,
          store |-> [store EXCEPT !.hasValue = TRUE,
                                  !.value = SubSeq(value, 1, value_size)]]
    ELSE [r |-> -1, store |-> store]

\* unsigned char *virSecretGetValue(virSecretPtr, size_t *value_size, flags):
\* a fresh buffer the caller must free, or NULL; a secret without a value
\* is an error.
virSecretGetValue(ptr, flags, fault) ==
    IF Served(ptr, fault) /\ store.hasValue
    THEN [made |-> TRUE, null |-> FALSE, val |-> store.value,
          size |-> Len(store.value)]
    ELSE [made |-> TRUE, null |-> TRUE, val |-> <<>>, size |-> 0]

\* int virSecretUndefine(virSecretPtr): the daemon deletes the secret and
\* its value.
virSecretUndefine(ptr, fault) ==
    IF Served(ptr, fault)
    THEN [r |-> 0,
          store |-> [defined |-> FALSE, hasValue |-> FALSE, value |-> <<>>]]
    ELSE [r |-> -1, store |-> store]

\* int virSecretFree(virSecretPtr): drops the caller's reference; the daemon
\* is not involved.
virSecretFree(ptr) == IF ptr = NULL THEN -1 ELSE 0

(* --------------------- Ruby and common.h helpers ---------------------- *)

DATA_PTR(h) == handle[h].ptr

\* ruby_libvirt_get_struct(kind, v): the wrapped pointer, or
\* ArgumentError "<kind> has been freed" when it is NULL.
ruby_libvirt_get_struct(h) ==
    IF DATA_PTR(h) = NULL
    THEN [raised |-> TRUE, ptr |-> NULL]
    ELSE [raised |-> FALSE, ptr |-> DATA_PTR(h)]

\* secret_get without the check for a freed object.
secret_get_unchecked(h) == [raised |-> FALSE, ptr |-> DATA_PTR(h)]

secret_get(h) == ruby_libvirt_get_struct(h)

\* ruby_libvirt_value_to_uint(flags): nil is 0, an Integer is itself,
\* anything else is a TypeError.
ruby_libvirt_value_to_uint(flags) ==
    [raised |-> flags = "bad", n |-> 0]

\* StringValue(v): a String is itself, an object with to_str is converted,
\* anything else (nil included) is a TypeError.
StringValue(value) ==
    [raised |-> value.kind \notin {"str", "obj"}, bytes |-> value.bytes]

\* rb_str_new(ptr, len): the first len bytes at ptr, zero bytes included.
rb_str_new(ptr, len) == SubSeq(ptr, 1, len)

\* strlen(ptr): the bytes before the first zero byte.
strlen(ptr) ==
    IF \E i \in 1..Len(ptr) : ptr[i] = 0
    THEN (CHOOSE i \in 1..Len(ptr) :
              ptr[i] = 0 /\ \A j \in 1..(i - 1) : ptr[j] # 0) - 1
    ELSE Len(ptr)

\* ruby_libvirt_str_new_wrap(struct ruby_libvirt_str_new_arg *), run under
\* rb_protect: rb_str_new(val, size), or the exception rb_str_new raised.
ruby_libvirt_str_new_wrap(args, oom) ==
    IF oom
    THEN [exception |-> TRUE, str |-> <<>>]
    ELSE [exception |-> FALSE, str |-> rb_str_new(args.val, args.size)]

\* The exceptions raised while the arguments of the libvirt call are
\* evaluated; C leaves the order of evaluation open, so when both the
\* handle and the flags are bad either exception may be the one raised.
ArgFailures(h, flags) ==
    (IF secret_get(h).raised THEN {"ArgumentError"} ELSE {})
        \cup (IF ruby_libvirt_value_to_uint(flags).raised THEN {"TypeError"} ELSE {})

\* A method call that ends without touching the daemon or the handles.
Local(c) ==
    /\ last' = c
    /\ UNCHANGED <<store, handle, released>>

\* A Ruby object a caller can still call methods on.
Callable(h) == handle[h].state = "wrapped"

\* ruby_libvirt_raise_error_if(cond, ...): the libvirt exception, carrying
\* the connection's last error, when cond holds.
ruby_libvirt_raise_error_if(cond) == IF cond THEN "LibvirtError" ELSE "ok"

\* ruby_libvirt_generate_call_nil(func, conn, args...): nil, or the libvirt
\* exception when func returned a negative number.
ruby_libvirt_generate_call_nil(r) == ruby_libvirt_raise_error_if(r < 0)

(* ------------------------- Libvirt::Secret ----------------------------- *)

\* The call record of a method without arguments.
Plain(op, h, called, kind, ret) ==
    Call(op, h, "absent", "uint", FALSE, FALSE, called, kind, ret, NoReply, 0)

\* ruby_libvirt_secret_new(s, conn): a new Ruby object wrapping s.
ruby_libvirt_secret_new(h, ptr) ==
    handle' = [handle EXCEPT ![h] = [state |-> "wrapped", ptr |-> ptr]]

\* secret.get_uuid_string
libvirt_secret_get_uuid_string(h) ==
    IF secret_get(h).raised
    THEN Local(Plain("get_uuid_string", h, "none", "ArgumentError", NoRet))
    ELSE LET r == virSecretGetUUIDString(secret_get(h).ptr)
         IN  Local(Plain("get_uuid_string", h, "virSecretGetUUIDString",
                         ruby_libvirt_raise_error_if(r.r < 0),
                         IF r.r < 0 THEN NoRet
                         ELSE [tag |-> "uuid", bytes |-> <<>>, of |-> r.of]))

\* secret.get_usage_type
libvirt_secret_get_usage_type(h) ==
    IF secret_get(h).raised
    THEN Local(Plain("get_usage_type", h, "none", "ArgumentError", NoRet))
    ELSE LET r == virSecretGetUsageType(secret_get(h).ptr)
         IN  Local(Plain("get_usage_type", h, "virSecretGetUsageType",
                         ruby_libvirt_raise_error_if(r.r < 0),
                         IF r.r < 0 THEN NoRet
                         ELSE [tag |-> "usagetype", bytes |-> <<>>, of |-> r.of]))

\* secret.get_usage_id
libvirt_secret_get_usage_id(h) ==
    IF secret_get(h).raised
    THEN Local(Plain("get_usage_id", h, "none", "ArgumentError", NoRet))
    ELSE LET r == virSecretGetUsageID(secret_get(h).ptr)
         IN  Local(Plain("get_usage_id", h, "virSecretGetUsageID",
                         ruby_libvirt_raise_error_if(r.null),
                         IF r.null THEN NoRet
                         ELSE [tag |-> "usageid", bytes |-> <<>>, of |-> r.of]))

\* secret.get_xml_desc(flags=0)
libvirt_secret_get_xml_desc(h, flags, fault) ==
    IF ArgFailures(h, flags) # {}
    THEN \E k \in ArgFailures(h, flags) :
             Local(Call("get_xml_desc", h, "absent", flags, FALSE, FALSE, "none",
                        k, NoRet, NoReply, 0))
    ELSE LET r == virSecretGetXMLDesc(secret_get(h).ptr,
                                      ruby_libvirt_value_to_uint(flags).n, fault)
         IN  Local(Call("get_xml_desc", h, "absent", flags, fault, FALSE,
                        "virSecretGetXMLDesc",
                        ruby_libvirt_raise_error_if(r.null),
                        IF r.null THEN NoRet
                        ELSE [tag |-> "xml", bytes |-> <<>>, of |-> r.of],
                        NoReply, 0))

\* StringValue(value) of set_value, which treats nil as the empty string.
set_value_payload_nil_is_empty(value) ==
    IF value.kind = "nil"
    THEN [raised |-> FALSE, bytes |-> <<>>]
    ELSE StringValue(value)

\* set_value: StringValue(value).
set_value_payload(value) == StringValue(value)

\* The value arguments of set_value, with the length taken by strlen.
set_value_args_strlen(str) == [value |-> str, value_size |-> strlen(str)]

\* set_value: (unsigned char *)RSTRING_PTR(value), RSTRING_LEN(value).
set_value_args(str) == [value |-> str, value_size |-> Len(str)]

\* secret.set_value(value, flags=0)
libvirt_secret_set_value(h, value, flags, fault) ==
    IF value.kind = "absent"
    THEN \* rb_scan_args "11": one argument is required
         Local(Call("set_value", h, value.kind, flags, FALSE, FALSE, "none",
                    "ArgumentError", NoRet, NoReply, 0))
    ELSE IF set_value_payload(value).raised
    THEN Local(Call("set_value", h, value.kind, flags, FALSE, FALSE, "none",
                    "TypeError", NoRet, NoReply, 0))
    ELSE IF ArgFailures(h, flags) # {}
    THEN \E k \in ArgFailures(h, flags) :
             Local(Call("set_value", h, value.kind, flags, FALSE, FALSE, "none",
                        k, NoRet, NoReply, 0))
    ELSE LET a == set_value_args(set_value_payload(value).bytes)
             r == virSecretSetValue(secret_get(h).ptr, a.value, a.value_size,
                                    ruby_libvirt_value_to_uint(flags).n, fault)
         IN  /\ store' = r.store
             /\ last' = Call("set_value", h, value.kind, flags, fault, FALSE,
                             "virSecretSetValue",
                             ruby_libvirt_generate_call_nil(r.r),
                             IF r.r < 0 THEN NoRet ELSE NilRet, NoReply, 0)
             /\ UNCHANGED <<handle, released>>

\* get_value's test of the reply, which also takes a zero-length value for
\* no value.
get_value_failed_or_empty(reply) == reply.null \/ reply.size = 0

\* get_value's test of the reply, which is never true.
get_value_failed_never(reply) == FALSE

\* get_value: val == NULL.
get_value_failed(reply) == reply.null

\* get_value: args.val = (char *)val; args.size = value_size.
get_value_str_new_arg(reply) == [val |-> reply.val, size |-> reply.size]

\* The end of get_value, which re-raises before it frees.
get_value_finish_leaks(exception) ==
    [frees |-> IF exception THEN 0 ELSE 1, jump |-> exception]

\* get_value: free(val); if (exception) rb_jump_tag(exception).
get_value_finish(exception) == [frees |-> 1, jump |-> exception]

\* secret.get_value(flags=0)
libvirt_secret_get_value(h, flags, fault, oom) ==
    IF ArgFailures(h, flags) # {}
    THEN \E k \in ArgFailures(h, flags) :
             Local(Call("get_value", h, "absent", flags, FALSE, FALSE, "none",
                        k, NoRet, NoReply, 0))
    ELSE LET reply == virSecretGetValue(secret_get(h).ptr,
                                        ruby_libvirt_value_to_uint(flags).n, fault)
         IN  IF ruby_libvirt_raise_error_if(get_value_failed(reply)) # "ok"
             THEN Local(Call("get_value", h, "absent", flags, fault, FALSE,
                             "virSecretGetValue", "LibvirtError", NoRet, reply, 0))
             ELSE LET built == ruby_libvirt_str_new_wrap(
                                   get_value_str_new_arg(reply), oom)
                      fin == get_value_finish(built.exception)
                  IN  Local(Call("get_value", h, "absent", flags, fault, oom,
                                 "virSecretGetValue",
                                 IF fin.jump THEN "NoMemoryError" ELSE "ok",
                                 IF fin.jump THEN NoRet
                                 ELSE [tag |-> "str", bytes |-> built.str, of |-> NULL],
                                 reply, fin.frees))

\* undefine, which reports success without asking the daemon.
libvirt_secret_undefine_no_call(h, fault) ==
    IF secret_get(h).raised
    THEN Local(Plain("undefine", h, "none", "ArgumentError", NoRet))
    ELSE Local(Call("undefine", h, "absent", "uint", fault, FALSE, "none", "ok",
                    NilRet, NoReply, 0))

\* undefine, which drops the object's pointer whatever the daemon answered.
libvirt_secret_undefine_drops_ptr(h, fault) ==
    IF secret_get(h).raised
    THEN Local(Plain("undefine", h, "none", "ArgumentError", NoRet))
    ELSE LET r == virSecretUndefine(secret_get(h).ptr, fault)
         IN  /\ store' = r.store
             /\ handle' = [handle EXCEPT ![h].ptr = NULL]
             /\ UNCHANGED released
             /\ last' = Call("undefine", h, "absent", "uint", fault, FALSE,
                             "virSecretUndefine",
                             ruby_libvirt_generate_call_nil(r.r),
                             IF r.r < 0 THEN NoRet ELSE NilRet, NoReply, 0)

\* secret.undefine
libvirt_secret_undefine(h, fault) ==
    IF secret_get(h).raised
    THEN Local(Plain("undefine", h, "none", "ArgumentError", NoRet))
    ELSE LET r == virSecretUndefine(secret_get(h).ptr, fault)
         IN  /\ store' = r.store
             /\ last' = Call("undefine", h, "absent", "uint", fault, FALSE,
                             "virSecretUndefine",
                             ruby_libvirt_generate_call_nil(r.r),
                             IF r.r < 0 THEN NoRet ELSE NilRet, NoReply, 0)
             /\ UNCHANGED <<handle, released>>

\* ruby_libvirt_generate_call_free(kind, s): virSecretFree on a pointer that
\* is still there, then DATA_PTR(s) = NULL; nil in every case.
ruby_libvirt_generate_call_free(h) ==
    IF DATA_PTR(h) # NULL
    THEN /\ released' = [released EXCEPT ![h] = @ + 1]
         /\ handle' = [handle EXCEPT ![h].ptr = NULL]
         /\ last' = Plain("free", h, "virSecretFree",
                          ruby_libvirt_raise_error_if(virSecretFree(DATA_PTR(h)) < 0),
                          NilRet)
         /\ UNCHANGED store
    ELSE Local(Plain("free", h, "none", "ok", NilRet))

\* free, which leaves the pointer in the object.
libvirt_secret_free_keeps_ptr(h) ==
    /\ released' = [released EXCEPT ![h] = @ + 1]
    /\ last' = Plain("free", h, "virSecretFree", "ok", NilRet)
    /\ UNCHANGED <<store, handle>>

\* free, which also deletes the secret in the daemon.
libvirt_secret_free_undefines(h) ==
    IF DATA_PTR(h) # NULL
    THEN /\ released' = [released EXCEPT ![h] = @ + 1]
         /\ handle' = [handle EXCEPT ![h].ptr = NULL]
         /\ store' = virSecretUndefine(DATA_PTR(h), FALSE).store
         /\ last' = Plain("free", h, "virSecretFree", "ok", NilRet)
    ELSE Local(Plain("free", h, "none", "ok", NilRet))

\* secret.free
libvirt_secret_free(h) == ruby_libvirt_generate_call_free(h)

\* ruby_libvirt_free_struct(kind, p): virSecretFree(p).
ruby_libvirt_free_struct(h) == released' = [released EXCEPT ![h] = @ + 1]

\* secret_free(void *s): the free function Ruby's collector runs on the
\* pointer of an object it reclaims; Ruby runs it only on a non-NULL pointer.
secret_free(h) == ruby_libvirt_free_struct(h)

(* ------------------- the callers of Libvirt::Secret -------------------- *)

\* Ruby objects are created one after the other.
Fresh(h) ==
    /\ handle[h].state = "unborn"
    /\ \A g \in Handles : g < h => handle[g].state # "unborn"

\* connect.define_secret_xml(xml): the daemon defines the secret, or
\* redefines it keeping its value, and the caller gets a new object for it.
DefineSecret(h) ==
    /\ Fresh(h)
    /\ store' = [store EXCEPT !.defined = TRUE]
    /\ ruby_libvirt_secret_new(h, SECRET)
    /\ last' = Plain("define", h, "virSecretDefineXML", "ok", NoRet)
    /\ undefd' = FALSE
    /\ UNCHANGED <<released, lastSet>>

\* connect.lookup_secret_by_uuid(uuid): a new object for a defined secret.
LookupSecret(h) ==
    /\ Fresh(h)
    /\ store.defined
    /\ ruby_libvirt_secret_new(h, SECRET)
    /\ last' = Plain("lookup", h, "virSecretLookupByUUIDString", "ok", NoRet)
    /\ UNCHANGED <<store, released, lastSet, undefd>>

\* Ruby's collector reclaims an object the program no longer refers to.
Collect(h) ==
    /\ Callable(h)
    /\ IF DATA_PTR(h) # NULL THEN secret_free(h) ELSE UNCHANGED released
    /\ handle' = [handle EXCEPT ![h] = [state |-> "collected", ptr |-> NULL]]
    /\ last' = Plain("gc", h, "none", "ok", NoRet)
    /\ UNCHANGED <<store, lastSet, undefd>>

GetUUIDString ==
    \E h \in Handles :
        /\ Callable(h)
        /\ libvirt_secret_get_uuid_string(h)
        /\ UNCHANGED <<lastSet, undefd>>

GetUsageType ==
    \E h \in Handles :
        /\ Callable(h)
        /\ libvirt_secret_get_usage_type(h)
        /\ UNCHANGED <<lastSet, undefd>>

GetUsageID ==
    \E h \in Handles :
        /\ Callable(h)
        /\ libvirt_secret_get_usage_id(h)
        /\ UNCHANGED <<lastSet, undefd>>

GetXMLDesc ==
    \E h \in Handles, flags \in FlagArgs, fault \in BOOLEAN :
        /\ Callable(h)
        /\ libvirt_secret_get_xml_desc(h, flags, fault)
        /\ UNCHANGED <<lastSet, undefd>>

SetValue ==
    \E h \in Handles, value \in Payloads, flags \in FlagArgs, fault \in BOOLEAN :
        /\ Callable(h)
        /\ libvirt_secret_set_value(h, value, flags, fault)
        /\ lastSet' = IF last'.kind = "ok" /\ DATA_PTR(h) # NULL
                      THEN [set |-> TRUE, bytes |-> value.bytes]
                      ELSE lastSet
        /\ UNCHANGED undefd

GetValue ==
    \E h \in Handles, flags \in FlagArgs, fault \in BOOLEAN, oom \in BOOLEAN :
        /\ Callable(h)
        /\ libvirt_secret_get_value(h, flags, fault, oom)
        /\ UNCHANGED <<lastSet, undefd>>

Undefine ==
    \E h \in Handles, fault \in BOOLEAN :
        /\ Callable(h)
        /\ libvirt_secret_undefine(h, fault)
        /\ IF last'.kind = "ok" /\ DATA_PTR(h) # NULL
           THEN /\ lastSet' = NoValue
                /\ undefd' = TRUE
           ELSE UNCHANGED <<lastSet, undefd>>

Free ==
    \E h \in Handles :
        /\ Callable(h)
        /\ libvirt_secret_free(h)
        /\ UNCHANGED <<lastSet, undefd>>

Define == \E h \in Handles : DefineSecret(h)

Lookup == \E h \in Handles : LookupSecret(h)

GC == \E h \in Handles : Collect(h)

Next ==
    \/ Define
    \/ Lookup
    \/ GC
    \/ GetUUIDString
    \/ GetUsageType
    \/ GetUsageID
    \/ GetXMLDesc
    \/ SetValue
    \/ GetValue
    \/ Undefine
    \/ Free

Spec == Init /\ [][Next]_vars

(* ------------------------------ properties ----------------------------- *)

\* The methods other than free.
Methods ==
    {"get_uuid_string", "get_usage_type", "get_usage_id", "get_xml_desc",
     "set_value", "get_value", "undefine"}

\* The methods that ask the daemon.
DaemonMethods == {"get_xml_desc", "set_value", "get_value", "undefine"}

\* The object is there and still holds its pointer / has been freed.
Live(h) == h \in Handles /\ handle[h].state = "wrapped" /\ handle[h].ptr # NULL

Freed(h) == h \in Handles /\ handle[h].state = "wrapped" /\ handle[h].ptr = NULL

\* C1: a get_value on a live handle, after a successful set_value(v) with no
\* set_value or undefine since, returns exactly the bytes of v, whatever
\* their number and whether or not some are zero, whenever the daemon
\* answers and the string is built; and whatever get_value returns is v.
SetThenGetReturnsValue ==
    [][last'.op = "get_value" /\ Live(last'.h) =>
          /\ (lastSet.set /\ last'.flags = "uint" /\ ~last'.fault /\ ~last'.oom
                => /\ last'.kind = "ok"
                   /\ last'.ret.tag = "str"
                   /\ last'.ret.bytes = lastSet.bytes)
          /\ (last'.kind = "ok"
                => lastSet.set /\ last'.ret.bytes = lastSet.bytes)]_vars

\* C1 witness: a two-byte value that starts with a zero byte came back whole.
SetThenGetWitness ==
    /\ last.op = "get_value"
    /\ last.kind = "ok"
    /\ lastSet.set
    /\ Len(lastSet.bytes) = 2
    /\ lastSet.bytes[1] = 0
    /\ last.ret.bytes = lastSet.bytes

\* C2, as stated: whenever get_value reaches the daemon, it raises exactly
\* when the reply is NULL and returns otherwise.
GetValueRaisesIffNull ==
    last.op = "get_value" /\ last.reply.made =>
        (last.kind # "ok" <=> last.reply.null)

\* C2, amended: get_value raises the libvirt error exactly when the daemon
\* call returned NULL; a reply that is not NULL is returned as a string of
\* exactly the replied length (the empty string for length 0) unless
\* building the string raises, and then that exception is what is raised;
\* a NULL reply is never returned as a string.
GetValueNullIsTheError ==
    last.op = "get_value" =>
        /\ last.kind = "LibvirtError" <=> (last.reply.made /\ last.reply.null)
        /\ last.reply.made /\ ~last.reply.null =>
               IF last.oom
               THEN last.kind = "NoMemoryError"
               ELSE /\ last.kind = "ok"
                    /\ last.ret.tag = "str"
                    /\ Len(last.ret.bytes) = last.reply.size
                    /\ last.ret.bytes = last.reply.val
        /\ last.kind = "ok" => last.reply.made /\ ~last.reply.null

\* C2 witness: a reply of length 0 that is not NULL came back as "".
GetValueEmptyWitness ==
    /\ last.op = "get_value"
    /\ last.reply.made
    /\ ~last.reply.null
    /\ last.reply.size = 0
    /\ last.kind = "ok"
    /\ last.ret.bytes = <<>>

AfterFreeNothingIsDispatched ==
    [][last'.op \in Methods /\ Freed(last'.h) =>
          /\ last'.kind # "ok"
          /\ last'.called = "none"
          /\ store' = store]_vars

\* C4 witness: set_value with a String on a freed handle raised, with the
\* daemon still holding a value.
AfterFreeWitness ==
    /\ last.op = "set_value"
    /\ last.arg = "str"
    /\ Freed(last.h)
    /\ last.kind = "ArgumentError"
    /\ last.called = "none"
    /\ store.hasValue

\* C5: free returns nil without error on a live and on a freed handle,
\* leaves the handle freed, and on a freed handle calls nothing; the pointer
\* of an object is released at most once, by free or by the collector.
FreeIsIdempotent ==
    [][/\ \A h \in Handles : released'[h] <= 1
       /\ last'.op = "free" =>
            /\ last'.kind = "ok"
            /\ last'.ret.tag = "nil"
            /\ handle'[last'.h].ptr = NULL
            /\ Freed(last'.h) => last'.called = "none" /\ released' = released
            /\ Live(last'.h) => last'.called = "virSecretFree"]_vars

\* C5 witness: a free on a handle that was already freed.
FreeTwiceWitness ==
    /\ last.op = "free"
    /\ last.called = "none"
    /\ last.kind = "ok"
    /\ released[last.h] = 1

\* C6: free leaves the daemon's secret and every other Ruby object as they
\* were.
FreeIsLocal ==
    [][last'.op = "free" =>
          /\ store' = store
          /\ \A g \in Handles \ {last'.h} : handle'[g] = handle[g]]_vars

\* C6 witness: a handle was freed while the secret has a value and another
\* handle on it is live.
FreeIsLocalWitness ==
    /\ last.op = "free"
    /\ last.called = "virSecretFree"
    /\ store.defined
    /\ store.hasValue
    /\ \E g \in Handles \ {last.h} : Live(g)

\* C7: a method that raises on a live handle leaves the handle, the other
\* handles and the daemon's secret as they were.
FailureChangesNothing ==
    [][last'.op \in Methods /\ Live(last'.h) /\ last'.kind # "ok" =>
          /\ store' = store
          /\ handle' = handle
          /\ released' = released]_vars

\* C7 witness: a set_value the daemon refused, with the earlier value still
\* stored and the handle still live.
FailureWitness ==
    /\ last.op = "set_value"
    /\ last.fault
    /\ last.kind = "LibvirtError"
    /\ Live(last.h)
    /\ store.hasValue
    /\ lastSet.set
    /\ store.value = lastSet.bytes

\* C8: get_value on a live handle of a secret no set_value has given a
\* value raises; it does not return a string.
GetValueUnsetFails ==
    last.op = "get_value" /\ Live(last.h) /\ ~lastSet.set => last.kind # "ok"

\* C8 witness: the daemon answered a get_value on a defined secret without
\* a value, and the call raised.
GetValueUnsetWitness ==
    /\ last.op = "get_value"
    /\ Live(last.h)
    /\ store.defined
    /\ ~lastSet.set
    /\ ~last.fault
    /\ last.called = "virSecretGetValue"
    /\ last.kind = "LibvirtError"

\* C9: get_value frees the buffer of a reply that is not NULL exactly once,
\* whether the string was built or building it raised (and then the
\* exception is raised after the buffer is freed), and frees nothing when
\* the reply is NULL or no call was made: no buffer outlives the call.
GetValueFreesBufferOnce ==
    last.op = "get_value" =>
        /\ last.frees = IF last.reply.made /\ ~last.reply.null THEN 1 ELSE 0
        /\ last.reply.made /\ ~last.reply.null /\ last.oom =>
               last.kind = "NoMemoryError" /\ last.frees = 1

\* C9 witness: building the string raised and the buffer was freed.
GetValueFreesWitness ==
    /\ last.op = "get_value"
    /\ last.oom
    /\ last.kind = "NoMemoryError"
    /\ last.frees = 1

\* C10: set_value without a value, with nil, or with an object that cannot
\* be converted to a String raises before any libvirt call is made; the
\* daemon's secret and the handles are as they were.
SetValueRejectsNil ==
    [][last'.op = "set_value" /\ last'.arg \in {"absent", "nil", "int"} =>
          /\ last'.kind \in {"ArgumentError", "TypeError"}
          /\ last'.called = "none"
          /\ store' = store
          /\ handle' = handle]_vars

\* C10 witness: set_value(nil) on a live handle raised TypeError with the
\* stored value in place.
SetValueNilWitness ==
    /\ last.op = "set_value"
    /\ last.arg = "nil"
    /\ last.kind = "TypeError"
    /\ last.called = "none"
    /\ Live(last.h)
    /\ store.hasValue

====
